---- MODULE Spec2Model ----
(***************************************************************************)
(* Movie recommender: the Flask request handlers of app.py (recommend,     *)
(* list titles) over two provenances, the pickle-loaded dense matrix and   *)
(* the relational store, and the migration script migrate_data.py that     *)
(* fills the store from the pickles.                                       *)
(*                                                                         *)
(* Titles are modelled as naturals (their order is the alphabetical        *)
(* order), similarity scores as integers in units of 0.00001, catalog      *)
(* indices are 0-based as in the DataFrame / numpy matrix.                 *)
(***************************************************************************)
EXTENDS Integers, Sequences, FiniteSets, TLC

\* ------------------------------------------------------------------ bounds
\* Catalog sizes are 1..MaxSmallCatalog plus one size the top-K cut
\* shortens, TopK + 2.
MaxSmallCatalog == 3
\* Dataset generations 0..MaxSeed (see similarity_matrix below).
MaxSeed == 1
\* Requests name the titles of the catalog entries 0..MaxRequested - 1, a
\* title no catalog holds, or no title.
MaxRequested == 3
\* Number of times main() of the migration script is run.
MaxRuns == 2
\* Number of RecommendationHistory rows the model lets the store hold.
MaxHistory == 1

\* ------------------------------------------------------- program constants
\* similarity_scores[1:11], .limit(10)
TopK == 10
\* migrated_count % 50
MovieBatch == 50
\* recommendation_count % 100
RecommendationBatch == 100
\* matrix_count % 200
MatrixBatch == 200
\* similarity_score > 0.01, in units of 0.00001
MaterializationThreshold == 1000

\* ---------------------------------------------------------------- datasets
\* The scores a dataset generation may hold: 0, 0.01, 0.01004, 0.5, 0.8,
\* 0.80004, 1.0.  No value ends in 5 (where round() depends on the binary
\* representation of the float).
ScoreSeq == <<0, 1000, 1004, 50000, 80000, 80004, 100000>>

Min(a, b) == IF a < b THEN a ELSE b
Max(a, b) == IF a < b THEN b ELSE a

CatalogSizes == (1..MaxSmallCatalog) \cup {TopK + 2}

\* The request body carries no 'movie' key.
NoMovieKey == -1
\* A title that is in no catalog ("Nonexistent Movie XYZ").
UnknownTitle == 0

VARIABLES
    dataset,            \* the pickle files: [n, seed, rejected]
    server,             \* "starting" | "serving"
    data_loaded,        \* app.data_loaded
    movies,             \* committed Movie rows [id, title]
    recommendations,    \* committed Recommendation rows
    similarity_pairs,   \* committed SimilarityMatrix rows
    history,            \* committed RecommendationHistory rows, oldest first
    pc,                 \* where the migration script is
    idx,                \* loop index of the migration function running
    migrated_count,
    recommendation_count,
    matrix_count,
    runs,               \* how many times main() was started
    resp                \* the last response a request handler returned

vars == <<dataset, server, data_loaded, movies, recommendations,
          similarity_pairs, history, pc, idx, migrated_count,
          recommendation_count, matrix_count, runs, resp>>

store == <<movies, recommendations, similarity_pairs>>
counters == <<migrated_count, recommendation_count, matrix_count>>

N == dataset.n
Indices == 0..(N - 1)

\* movie_list.pkl: the titles by DataFrame index.  Titles are unique; they
\* are in ascending or in descending alphabetical order.
movie_data ==
    [i \in Indices |->
        IF (dataset.seed + N) % 2 = 0 THEN i + 1 ELSE N - i]

\* similarity.pkl: a symmetric matrix.  The self-score is 1.0 in even
\* generations and 0.8 in odd ones, so that other entries may score as high
\* as, or higher than, the entry itself.
similarity_matrix ==
    [i \in Indices |-> [j \in Indices |->
        IF i = j
        THEN (IF dataset.seed % 2 = 0 THEN 100000 ELSE 80000)
        ELSE ScoreSeq[1 + ((Min(i, j) * Max(i, j)
                            + dataset.seed * (i + j) + dataset.seed)
                           % Len(ScoreSeq))]]]

\* The catalog entries whose INSERT the database rejects when flushed (a
\* title longer than the column, a duplicate tmdb_id): none, the first
\* entry or the last one.
Rejected(i) == i \in dataset.rejected

Datasets ==
    UNION { { [n |-> n, seed |-> s, rejected |-> r] :
                s \in 0..MaxSeed, r \in {{}, {0}, {n - 1}} } :
            n \in CatalogSizes }

\* ------------------------------------------------------------ pure helpers
\* round(float(score), 4): to the nearest multiple of 0.0001.
Round4(score) ==
    IF score >= 0
    THEN ((score + 5) \div 10) * 10
    ELSE -((((-score) + 5) \div 10) * 10)

\* Variant of InsertScore: the insertion of a sort without reverse=True,
\* which leaves the pairs in ascending score order.
InsertScoreAscending(sorted, pair) ==
    LET k == Cardinality({p \in 1..Len(sorted) : sorted[p][2] <= pair[2]})
    IN SubSeq(sorted, 1, k) \o <<pair>> \o SubSeq(sorted, k + 1, Len(sorted))

\* sorted(list(enumerate(row)), key=lambda x: x[1], reverse=True): Python's
\* sort is stable, also with reverse=True, so pairs of equal score keep their
\* ascending index order.  The pairs are inserted in index order, each one
\* after every pair already placed whose score is not smaller.
InsertScore(sorted, pair) ==
    LET k == Cardinality({p \in 1..Len(sorted) : sorted[p][2] >= pair[2]})
    IN SubSeq(sorted, 1, k) \o <<pair>> \o SubSeq(sorted, k + 1, Len(sorted))

RECURSIVE SortedPrefix(_, _)
SortedPrefix(row, n) ==
    IF n = 0 THEN <<>>
    ELSE CHOOSE sorted \in
             {InsertScore(prefix, <<n - 1, row[n - 1]>>) :
                 prefix \in {SortedPrefix(row, n - 1)}} : TRUE

SortedScores(row) == SortedPrefix(row, Cardinality(DOMAIN row))

\* similarity_scores[1:11]
TopSlice(sorted) == SubSeq(sorted, 2, Min(TopK + 1, Len(sorted)))

\* A response of a request handler.  kind: which handler; status: the HTTP
\* status; recommendations: the items, each [title, similarity_score];
\* titles: the list of get_movies; source: the provenance the response names;
\* write: what became of the analytics write ("none": not attempted).
Response(kind, request, status, items, titles, source, write) ==
    [kind |-> kind, request |-> request, status |-> status,
     selected_movie |-> request, recommendations |-> items,
     titles |-> titles, source |-> source, write |-> write]

NoResponse == Response("none", NoMovieKey, 0, <<>>, <<>>, "none", "none")

\* Movie.query.filter_by(title=t): the committed rows with that title.
MoviesTitled(t) == {m \in movies : m.title = t}

\* rec.recommended_movie.title
TitleOfId(id) == (CHOOSE m \in movies : m.id = id).title

\* Recommendation.query.filter_by(source_movie_id=id).order_by(rank).limit(10)
\* Rows of one source differ in recommended_movie_id (unique_recommendation);
\* rows of equal rank, which the engine may return in any order, are put in
\* ascending recommended_movie_id order.
RankBefore(q, r) ==
    \/ q.rank < r.rank
    \/ (q.rank = r.rank /\ q.recommended_movie_id <= r.recommended_movie_id)

RECURSIVE OrderByRank(_)
OrderByRank(rows) ==
    IF rows = {} THEN <<>>
    ELSE CHOOSE ordered \in
             {CHOOSE s \in {<<first>> \o OrderByRank(rest) :
                                rest \in {rows \ {first}}} : TRUE :
                 first \in {r \in rows : \A q \in rows : RankBefore(r, q)}} :
             TRUE

db_recommendations(id) ==
    CHOOSE limited \in
        {SubSeq(ordered, 1, Min(TopK, Len(ordered))) :
            ordered \in
                {OrderByRank(rows) :
                    rows \in {{r \in recommendations :
                                  r.source_movie_id = id}}}} : TRUE

\* app.py 119-125: the rows served for a title, none when the title has no
\* Movie row.
source_recommendations(t) ==
    IF MoviesTitled(t) = {} THEN <<>>
    ELSE CHOOSE recs \in
             {db_recommendations(source_movie.id) :
                 source_movie \in {CHOOSE m \in MoviesTitled(t) : TRUE}} : TRUE

\* app.py 128-133: the items of the persisted path.
PersistedItems(recs) ==
    [p \in 1..Len(recs) |->
        [title |-> TitleOfId(recs[p].recommended_movie_id),
         similarity_score |-> Round4(recs[p].similarity_score)]]

\* movie_matches.index[0]: the first index holding the title.
MovieIndex(t) ==
    CHOOSE i \in Indices :
        movie_data[i] = t /\ \A k \in Indices : movie_data[k] = t => i <= k

\* app.py 177-185: the title and the rounded score of each sorted pair kept.
PickleTitles(top) ==
    [p \in 1..Len(top) |->
        [title |-> movie_data[top[p][1]],
         similarity_score |-> Round4(top[p][2])]]

\* app.py 166-185: the items of the in-memory path.
PickleItems(t) ==
    CHOOSE items \in
        {PickleTitles(TopSlice(similarity_scores)) :
            similarity_scores \in
                {SortedScores(row) :
                    row \in {similarity_matrix[MovieIndex(t)]}}} : TRUE

\* Variant of recommend_movies: the in-memory data is tried first and the
\* store only for a title the pickles do not resolve.
recommend_movies_pickle_first(t, recs) ==
    IF t = NoMovieKey
    THEN Response("recommend", t, 400, <<>>, <<>>, "none", "none")
    ELSE
        IF data_loaded /\ \E i \in Indices : movie_data[i] = t
        THEN Response("recommend", t, 200, PickleItems(t), <<>>,
                      "pickle", "none")
        ELSE IF recs # <<>>
        THEN Response("recommend", t, 200, PersistedItems(recs), <<>>,
                      "database", "attempted")
        ELSE Response("recommend", t, 404, <<>>, <<>>, "none", "none")

\* Variant of recommend_movies: a title the loaded pickles do not hold is
\* answered with an empty list instead of 404.
recommend_movies_empty_for_unknown(t, recs) ==
    IF t = NoMovieKey
    THEN Response("recommend", t, 400, <<>>, <<>>, "none", "none")
    ELSE
        IF recs # <<>>
        THEN Response("recommend", t, 200, PersistedItems(recs), <<>>,
                      "database", "attempted")
        ELSE IF ~data_loaded
        THEN Response("recommend", t, 404, <<>>, <<>>, "none", "none")
        ELSE IF \A i \in Indices : movie_data[i] # t
        THEN Response("recommend", t, 200, <<>>, <<>>, "pickle", "none")
        ELSE Response("recommend", t, 200, PickleItems(t), <<>>,
                      "pickle", "none")

\* Variant of recommend_movies: the persisted path leaves out the first row
\* once the history table holds a request, so that the output depends on the
\* analytics writes made before.
recommend_movies_history_dependent(t, recs) ==
    IF t = NoMovieKey
    THEN Response("recommend", t, 400, <<>>, <<>>, "none", "none")
    ELSE
        IF recs # <<>>
        THEN Response("recommend", t, 200,
                      PersistedItems(IF history = <<>> THEN recs ELSE Tail(recs)),
                      <<>>, "database", "attempted")
        ELSE IF ~data_loaded
        THEN Response("recommend", t, 404, <<>>, <<>>, "none", "none")
        ELSE IF \A i \in Indices : movie_data[i] # t
        THEN Response("recommend", t, 404, <<>>, <<>>, "none", "none")
        ELSE Response("recommend", t, 200, PickleItems(t), <<>>,
                      "pickle", "none")

\* recommend_movies() up to the analytics write: the response for the
\* request body, recs being the rows the queries of lines 119-125 return
\* for it; write is "attempted" on the persisted path, where the handler
\* goes on to log the request.
recommend_movies(t, recs) ==
    IF t = NoMovieKey
    THEN Response("recommend", t, 400, <<>>, <<>>, "none", "none")
    ELSE
        IF recs # <<>>
        THEN Response("recommend", t, 200, PersistedItems(recs), <<>>,
                      "database", "attempted")
        ELSE IF ~data_loaded
        THEN Response("recommend", t, 404, <<>>, <<>>, "none", "none")
        ELSE IF \A i \in Indices : movie_data[i] # t
        THEN Response("recommend", t, 404, <<>>, <<>>, "none", "none")
        ELSE Response("recommend", t, 200, PickleItems(t), <<>>,
                      "pickle", "none")

\* Variant of log_request: an analytics write that raises reaches the
\* outer handler (app.py 193-195), which answers 500.
log_request_uncaught(r, write_ok) ==
    IF r.write # "attempted" THEN r
    ELSE IF write_ok THEN [r EXCEPT !.write = "ok"]
    ELSE Response("recommend", r.request, 500, <<>>, <<>>, "none", "failed")

\* app.py 135-152: the analytics write (add + commit) of the persisted
\* path.  When it raises, the exception is caught and logged, and the
\* response built before it is returned all the same.
log_request(r, write_ok) ==
    IF r.write # "attempted" THEN r
    ELSE [r EXCEPT !.write = IF write_ok THEN "ok" ELSE "failed"]

\* The RecommendationHistory row the handler adds (app.py 137-144).
HistoryRow(t) ==
    [source_movie_id |-> (CHOOSE m \in MoviesTitled(t) : TRUE).id]

\* sorted(...): the titles in ascending order.
RECURSIVE SortedTitles(_)
SortedTitles(ts) ==
    IF ts = {} THEN <<>>
    ELSE LET least == CHOOSE t \in ts : \A u \in ts : t <= u
         IN <<least>> \o SortedTitles(ts \ {least})

\* Variant of get_movies: the pickle titles are returned in DataFrame order,
\* without sorted().
get_movies_unsorted ==
    IF movies # {}
    THEN Response("movies", NoMovieKey, 200, <<>>,
                  SortedTitles({m.title : m \in movies}), "database", "none")
    ELSE IF ~data_loaded
    THEN Response("movies", NoMovieKey, 500, <<>>, <<>>, "none", "none")
    ELSE Response("movies", NoMovieKey, 200, <<>>,
                  [p \in 1..N |-> movie_data[p - 1]], "pickle", "none")

\* get_movies(): Movie.query.order_by(Movie.title), else the pickle titles.
get_movies ==
    IF movies # {}
    THEN Response("movies", NoMovieKey, 200, <<>>,
                  SortedTitles({m.title : m \in movies}), "database", "none")
    ELSE IF ~data_loaded
    THEN Response("movies", NoMovieKey, 500, <<>>, <<>>, "none", "none")
    ELSE Response("movies", NoMovieKey, 200, <<>>,
                  SortedTitles({movie_data[i] : i \in Indices}), "pickle", "none")

\* What a request may name: the title of one of the first catalog entries,
\* a title no catalog holds, or nothing (a body without the 'movie' key).
RequestTitles ==
    {movie_data[i] : i \in {k \in Indices : k < MaxRequested}}
        \cup {UnknownTitle, NoMovieKey}

\* The analytics write is attempted on the persisted path alone (app.py 121,
\* 127); there it succeeds or raises.
WriteOutcomes(r) == IF r.write = "attempted" THEN BOOLEAN ELSE {TRUE}

TypeOK ==
    /\ dataset \in Datasets
    /\ server \in {"starting", "serving"}
    /\ data_loaded \in BOOLEAN
    /\ runs \in 0..MaxRuns
    /\ Len(history) <= MaxHistory

Init ==
    /\ dataset \in Datasets
    /\ server = "starting"
    /\ data_loaded = FALSE
    /\ movies = {}
    /\ recommendations = {}
    /\ similarity_pairs = {}
    /\ history = <<>>
    /\ pc = "idle"
    /\ idx = 0
    /\ migrated_count = 0
    /\ recommendation_count = 0
    /\ matrix_count = 0
    /\ runs = 0
    /\ resp = NoResponse

\* load_data() at import time: the pickles are read if both exist; the
\* process goes on to serve either way.
LoadData ==
    /\ server = "starting"
    /\ \E ok \in BOOLEAN : data_loaded' = ok
    /\ server' = "serving"
    /\ UNCHANGED <<dataset, store, history, pc, idx, counters, runs, resp>>

\* POST /api/recommend
Recommend ==
    /\ server = "serving"
    /\ \E t \in RequestTitles :
        \E recs \in {source_recommendations(t)} :
        \E built \in {recommend_movies(t, recs)} :
        \E write_ok \in WriteOutcomes(built) :
            LET r == log_request(built, write_ok)
            IN /\ r.write = "ok" => Len(history) < MaxHistory
               /\ resp' = r
               /\ history' = IF r.write = "ok"
                             THEN Append(history, HistoryRow(t))
                             ELSE history
    /\ UNCHANGED <<dataset, server, data_loaded, store, pc, idx, counters,
                   runs>>

\* Variant of GetMovies: a request that finds the store empty fills the
\* movies table from the loaded pickles before it answers.
GetMoviesSeeding ==
    /\ server = "serving"
    /\ resp' = get_movies
    /\ movies' = IF movies = {} /\ data_loaded
                 THEN {[id |-> i + 1, title |-> movie_data[i]] : i \in Indices}
                 ELSE movies
    /\ UNCHANGED <<dataset, server, data_loaded, recommendations,
                   similarity_pairs, history, pc, idx, counters, runs>>

\* GET /api/movies
GetMovies ==
    /\ server = "serving"
    /\ resp' = get_movies
    /\ UNCHANGED <<dataset, server, data_loaded, store, history, pc, idx,
                   counters, runs>>

\* ------------------------------------------------------- migrate_data.py
\* The script's transaction is private until it commits: a request sees
\* none of the rows a loop has added before the next commit.  Each action
\* below therefore runs a loop from iteration idx up to its next commit
\* that writes rows, or to the end of the function with its final commit.

\* The id a new Movie row gets: one more than the largest id the
\* transaction sees.
NextId(rows) ==
    IF rows = {} THEN 1
    ELSE 1 + (CHOOSE x \in {m.id : m \in rows} :
                  \A y \in {m.id : m \in rows} : y <= x)

\* A flush raises when the database rejects one of the pending INSERTs.
FlushFails(new) == \E k \in 1..Len(new) : Rejected(new[k])

\* The Movie rows the transaction holds once the pending objects are
\* flushed.
RECURSIVE Flushed(_, _)
Flushed(rows, new) ==
    IF new = <<>> THEN rows
    ELSE Flushed(rows \cup {[id |-> NextId(rows), title |-> movie_data[Head(new)]]},
                 Tail(new))

\* migrate_movies between two iterations: the committed rows (movies), the
\* objects added and not flushed yet (session_new, catalog indices), the
\* rows flushed and not committed (session_movies), and whether the last
\* iteration committed rows.
MoviesLoop(i, rows, count) ==
    [idx |-> i, movies |-> rows, session_new |-> <<>>, session_movies |-> {},
     migrated_count |-> count, committed |-> FALSE]

\* Variant of migrate_movies_iteration: without the existing_movie test of
\* lines 47-50, every entry is inserted whether the store holds its title
\* or not.
migrate_movies_iteration_unchecked(st) ==
    LET i == st.idx
        visible == Flushed(st.movies \cup st.session_movies, st.session_new)
    IN  IF FlushFails(st.session_new)
        THEN [st EXCEPT !.idx = i + 1, !.session_new = <<>>,
                        !.session_movies = {}]
        ELSE IF (st.migrated_count + 1) % MovieBatch = 0
        THEN [st EXCEPT !.idx = i + 1, !.migrated_count = @ + 1,
                        !.session_new = <<>>, !.session_movies = {},
                        !.movies = IF Rejected(i) THEN @
                                   ELSE Flushed(visible, <<i>>),
                        !.committed = ~Rejected(i)]
        ELSE [st EXCEPT !.idx = i + 1, !.migrated_count = @ + 1,
                        !.session_new = <<i>>,
                        !.session_movies = visible \ st.movies]

\* migrate_movies, one iteration of the loop (lines 44-73).  The query of
\* line 47 flushes the object the previous iteration added; when that
\* flush raises, the handler rolls the whole transaction back and the
\* iteration's own row is skipped.  A batch commit that raises is rolled
\* back the same way.
migrate_movies_iteration(st) ==
    LET i == st.idx
        visible == Flushed(st.movies \cup st.session_movies, st.session_new)
    IN  IF FlushFails(st.session_new)
        THEN [st EXCEPT !.idx = i + 1, !.session_new = <<>>,
                        !.session_movies = {}]
        ELSE IF \E m \in visible : m.title = movie_data[i]
        THEN [st EXCEPT !.idx = i + 1, !.session_new = <<>>,
                        !.session_movies = visible \ st.movies]
        ELSE IF (st.migrated_count + 1) % MovieBatch = 0
        THEN [st EXCEPT !.idx = i + 1, !.migrated_count = @ + 1,
                        !.session_new = <<>>, !.session_movies = {},
                        !.movies = IF Rejected(i) THEN @
                                   ELSE Flushed(visible, <<i>>),
                        !.committed = ~Rejected(i)]
        ELSE [st EXCEPT !.idx = i + 1, !.migrated_count = @ + 1,
                        !.session_new = <<i>>,
                        !.session_movies = visible \ st.movies]

\* The loop of migrate_movies up to a batch commit or to its end.
RECURSIVE migrate_movies_loop(_)
migrate_movies_loop(st) ==
    IF st.idx = N \/ st.committed THEN st
    ELSE migrate_movies_loop(migrate_movies_iteration(st))

\* movie_id_map.get(title): the id of the committed Movie row with that
\* title, 0 for None.  The map is read when the function starts; no Movie
\* row is written while it runs.
movie_id_map(t) ==
    IF MoviesTitled(t) = {} THEN 0
    ELSE (CHOOSE m \in MoviesTitled(t) : TRUE).id

\* main(): load_pickle_data and create_all succeed, migrate_movies starts.
StartMigration ==
    /\ pc \in {"idle", "done", "failed"}
    /\ runs < MaxRuns
    /\ runs' = runs + 1
    /\ pc' = "migrate_movies"
    /\ idx' = 0
    /\ migrated_count' = 0
    /\ recommendation_count' = 0
    /\ matrix_count' = 0
    /\ UNCHANGED <<dataset, server, data_loaded, store, history, resp>>

\* migrate_movies (lines 37-83): the loop up to a batch commit, or up to
\* its end and the final commit.  main goes on to migrate_similarity_data
\* when the function returns True and exits when it returns False.
MigrateMovies ==
    /\ pc = "migrate_movies"
    /\ \E st \in {migrate_movies_loop(MoviesLoop(idx, movies, migrated_count))} :
        /\ migrated_count' = st.migrated_count
        /\ IF st.idx < N
           THEN /\ movies' = st.movies
                /\ idx' = st.idx
                /\ UNCHANGED pc
           ELSE /\ idx' = 0
                /\ IF FlushFails(st.session_new)
                   THEN /\ pc' = "failed"
                        /\ movies' = st.movies
                   ELSE /\ pc' = "migrate_similarity_data"
                        /\ movies' = Flushed(st.movies \cup st.session_movies,
                                             st.session_new)
    /\ UNCHANGED <<dataset, server, data_loaded, recommendations,
                   similarity_pairs, history, recommendation_count,
                   matrix_count, runs, resp>>

\* The inner loop of migrate_similarity_data (lines 107-138): the
\* Recommendation rows it adds for the sorted pairs `top`, pair p getting
\* rank p.  A pair is skipped when its target has no Movie row or when a row
\* for (source, target) exists already among `rows`, the rows committed or
\* in the session; the pairs of one loop have different targets, so the rows
\* of one loop never make each other exist.
NewRecommendations(source_movie_id, top, rows) ==
    LET target_movie_id(p) == movie_id_map(movie_data[top[p][1]])
        stored == {r.recommended_movie_id :
                      r \in {q \in rows : q.source_movie_id = source_movie_id}}
        existing_rec(p) == target_movie_id(p) \in stored
    IN { [source_movie_id |-> source_movie_id,
          recommended_movie_id |-> target_movie_id(p),
          similarity_score |-> top[p][2],
          rank |-> p] :
         p \in {q \in 1..Len(top) :
                   target_movie_id(q) # 0 /\ ~existing_rec(q)} }

\* migrate_similarity_data between two iterations of the outer loop: the
\* committed rows (recommendations), the rows added and not committed
\* (session_recs), and whether the last iteration committed rows.
SimilarityLoop(i, rows, count) ==
    [idx |-> i, recommendations |-> rows, session_recs |-> {},
     recommendation_count |-> count, committed |-> FALSE]

\* migrate_similarity_data, one iteration of the outer loop (lines 94-147).
\* A source without a Movie row is skipped before the batch check.
migrate_similarity_data_iteration(st) ==
    LET i == st.idx
        source_movie_id == movie_id_map(movie_data[i])
        similarity_scores == SortedScores(similarity_matrix[i])
        new == NewRecommendations(source_movie_id,
                                  TopSlice(similarity_scores),
                                  st.recommendations \cup st.session_recs)
        added == st.session_recs \cup new
        count == st.recommendation_count + Cardinality(new)
    IN  IF source_movie_id = 0
        THEN [st EXCEPT !.idx = i + 1]
        ELSE IF count % RecommendationBatch = 0
        THEN [st EXCEPT !.idx = i + 1, !.recommendation_count = count,
                        !.recommendations = @ \cup added,
                        !.session_recs = {},
                        !.committed = (added # {})]
        ELSE [st EXCEPT !.idx = i + 1, !.recommendation_count = count,
                        !.session_recs = added]

\* The outer loop up to a batch commit that writes rows, or to its end.
RECURSIVE migrate_similarity_data_loop(_)
migrate_similarity_data_loop(st) ==
    IF st.idx = N \/ st.committed THEN st
    ELSE migrate_similarity_data_loop(migrate_similarity_data_iteration(st))

\* migrate_similarity_data (lines 85-157): the outer loop up to a batch
\* commit, or up to its end and the final commit; main goes on whatever the
\* function returns.
MigrateSimilarityData ==
    /\ pc = "migrate_similarity_data"
    /\ \E st \in {migrate_similarity_data_loop(
                     SimilarityLoop(idx, recommendations,
                                    recommendation_count))} :
        /\ recommendation_count' = st.recommendation_count
        /\ IF st.idx < N
           THEN /\ recommendations' = st.recommendations
                /\ idx' = st.idx
                /\ UNCHANGED pc
           ELSE /\ recommendations' = st.recommendations \cup st.session_recs
                /\ idx' = 0
                /\ pc' = "migrate_similarity_matrix"
    /\ UNCHANGED <<dataset, server, data_loaded, movies, similarity_pairs,
                   history, migrated_count, matrix_count, runs, resp>>

\* Variant of NewSimilarityPairs: without the `i >= j` skip of lines
\* 170-171, the loops store every ordered pair, the self pairs included.
NewSimilarityPairsAllOrders ==
    LET existing_sim(movie1_id, movie2_id) ==
            \E q \in similarity_pairs :
                q.movie1_id = movie1_id /\ q.movie2_id = movie2_id
    IN { [movie1_id |-> movie_id_map(movie_data[c[1]]),
          movie2_id |-> movie_id_map(movie_data[c[2]]),
          similarity_score |-> similarity_matrix[c[1]][c[2]]] :
         c \in {d \in Indices \X Indices :
                   /\ movie_id_map(movie_data[d[1]]) # 0
                   /\ movie_id_map(movie_data[d[2]]) # 0
                   /\ ~existing_sim(movie_id_map(movie_data[d[1]]),
                                    movie_id_map(movie_data[d[2]]))
                   /\ similarity_matrix[d[1]][d[2]] > MaterializationThreshold} }

\* The loops of migrate_similarity_matrix (lines 168-211): the
\* SimilarityMatrix rows they add, one for each pair i < j whose entries
\* both have a Movie row, that is not stored yet and that scores above the
\* threshold.
NewSimilarityPairs ==
    LET existing_sim(movie1_id, movie2_id) ==
            \E q \in similarity_pairs :
                q.movie1_id = movie1_id /\ q.movie2_id = movie2_id
    IN { [movie1_id |-> movie_id_map(movie_data[c[1]]),
          movie2_id |-> movie_id_map(movie_data[c[2]]),
          similarity_score |-> similarity_matrix[c[1]][c[2]]] :
         c \in {d \in Indices \X Indices :
                   /\ d[1] < d[2]
                   /\ movie_id_map(movie_data[d[1]]) # 0
                   /\ movie_id_map(movie_data[d[2]]) # 0
                   /\ ~existing_sim(movie_id_map(movie_data[d[1]]),
                                    movie_id_map(movie_data[d[2]]))
                   /\ similarity_matrix[d[1]][d[2]] > MaterializationThreshold} }

\* migrate_similarity_matrix (lines 159-221): the loops, the batch commits
\* (each time matrix_count is a multiple of MatrixBatch), the final commit,
\* and the end of main, which returns True.  No request handler reads the
\* similarity_matrix table, so the function is one step; every row added is
\* committed when it ends.
MigrateSimilarityMatrix ==
    /\ pc = "migrate_similarity_matrix"
    /\ \E new \in {NewSimilarityPairs} :
        /\ similarity_pairs' = similarity_pairs \cup new
        /\ matrix_count' = Cardinality(new)
    /\ pc' = "done"
    /\ UNCHANGED <<dataset, server, data_loaded, movies, recommendations,
                   history, idx, migrated_count, recommendation_count, runs,
                   resp>>

Next ==
    \/ LoadData
    \/ Recommend
    \/ GetMovies
    \/ StartMigration
    \/ MigrateMovies
    \/ MigrateSimilarityData
    \/ MigrateSimilarityMatrix

Spec == Init /\ [][Next]_vars

\* ------------------------------------------------------------------ claims
\* The titles of the catalog and the index a title is held at.
AllTitles == {movie_data[i] : i \in Indices}
IndexOfTitle(t) == CHOOSE i \in Indices : movie_data[i] = t

\* The titles a list of items names and the position of a title in it.
ItemTitles(items) == {items[p].title : p \in 1..Len(items)}
PositionOf(items, t) == CHOOSE p \in 1..Len(items) : items[p].title = t

\* The last response is a list of recommendations.
Served == resp.kind = "recommend" /\ resp.status = 200

\* A step in which recommend_movies returned a response.
RecommendStep ==
    resp'.kind = "recommend" /\ (resp' # resp \/ history' # history)

\* The title resolves in the store / has precomputed rows there.
InStore(t) == \E m \in movies : m.title = t
HasRows(t) ==
    \E m \in movies :
        m.title = t /\ \E r \in recommendations : r.source_movie_id = m.id

\* C1, as the specification states it: a list recommend returns never holds
\* the source itself, and on the in-memory path no other entry is missing
\* from it unless the list is full (TopK items) with items that all score at
\* least as high.
C1_SelfExclusion ==
    Served =>
        LET items == resp.recommendations
            s == IndexOfTitle(resp.selected_movie)
        IN /\ resp.selected_movie \notin ItemTitles(items)
           /\ resp.source = "pickle" =>
                \A j \in Indices \ {s} :
                    \/ movie_data[j] \in ItemTitles(items)
                    \/ /\ Len(items) = TopK
                       /\ \A p \in 1..Len(items) :
                            items[p].similarity_score
                                >= Round4(similarity_matrix[s][j])

\* C2, as the specification states it: a list served from the pickles, or
\* from the store once a migration has completed, has exactly TopK items in
\* a catalog of more than TopK entries and N - 1 items otherwise.
C2_ListLength ==
    [][(/\ RecommendStep
        /\ resp'.status = 200
        /\ (resp'.source = "pickle" \/ pc = "done"))
       => Len(resp'.recommendations) = Min(TopK, N - 1)]_vars

\* C3: in every list recommend returns the scores are non-increasing along
\* the list, on the in-memory path and on the persisted path.
C3_NonIncreasing ==
    Served =>
        \A p \in 1..(Len(resp.recommendations) - 1) :
            resp.recommendations[p].similarity_score
                >= resp.recommendations[p + 1].similarity_score

\* C3 witness: a full list served from the store whose scores do decrease.
C3_Witness ==
    /\ Served
    /\ resp.source = "database"
    /\ Len(resp.recommendations) = TopK
    /\ resp.recommendations[1].similarity_score
           > resp.recommendations[TopK].similarity_score

\* C4, as the specification states it: of two candidates with an equal score
\* against the source, the one with the smaller index comes first: when the
\* one with the larger index is in the returned list, the other one is in it
\* too, at an earlier position.
C4_TieBreak ==
    Served =>
        LET items == resp.recommendations
            s == IndexOfTitle(resp.selected_movie)
        IN \A a, b \in Indices \ {s} :
            (/\ a < b
             /\ similarity_matrix[s][a] = similarity_matrix[s][b]
             /\ movie_data[b] \in ItemTitles(items))
            => /\ movie_data[a] \in ItemTitles(items)
               /\ PositionOf(items, movie_data[a])
                      < PositionOf(items, movie_data[b])

\* C5, as the specification states it: once the migration is done, the list
\* the store holds for an entry equals, item for item, the first items of
\* the list the in-memory path computes for that entry.
C5_CrossProvenance ==
    pc = "done" =>
        \A m \in movies :
            LET persisted == PersistedItems(db_recommendations(m.id))
                memory == PickleItems(m.title)
            IN /\ Len(persisted) <= Len(memory)
               /\ persisted = SubSeq(memory, 1, Len(persisted))

\* C6, as the specification states it: after migrate_similarity_data the
\* ranks stored for a source are exactly 1..count, and the stored score does
\* not increase with the rank.
C6_RankInvariant ==
    pc \in {"migrate_similarity_matrix", "done"} =>
        \A m \in movies :
            LET rows == {r \in recommendations : r.source_movie_id = m.id}
            IN /\ {r.rank : r \in rows} = 1..Cardinality(rows)
               /\ \A q, r \in rows :
                    q.rank < r.rank => q.similarity_score >= r.similarity_score

\* C7: recommend answers from the store exactly when the title resolves
\* there and has at least one Recommendation row; otherwise from the pickles
\* exactly when they are loaded and hold the title; otherwise with 404.  The
\* items of a response come from the provenance it names: from the rows of
\* the source in the store, or from the source's row of the matrix.
C7_Provenance ==
    [][(RecommendStep /\ resp'.request # NoMovieKey) =>
        LET t == resp'.request
            items == resp'.recommendations
            in_memory == data_loaded /\ t \in AllTitles
        IN \A has_rows \in {HasRows(t)} :
           /\ resp'.status \in {200, 404}
           /\ resp'.source = "database" <=> has_rows
           /\ resp'.source = "pickle" <=> (~has_rows /\ in_memory)
           /\ resp'.status = 404 <=> (~has_rows /\ ~in_memory)
           /\ resp'.source = "database" =>
                \E m \in movies :
                    /\ m.title = t
                    /\ \A p \in 1..Len(items) : \E r \in recommendations :
                        /\ r.source_movie_id = m.id
                        /\ Round4(r.similarity_score)
                               = items[p].similarity_score
                        /\ TitleOfId(r.recommended_movie_id) = items[p].title
           /\ resp'.source = "pickle" =>
                \E s \in Indices :
                    /\ movie_data[s] = t
                    /\ \A p \in 1..Len(items) : \E j \in Indices :
                        /\ movie_data[j] = items[p].title
                        /\ Round4(similarity_matrix[s][j])
                               = items[p].similarity_score]_vars

\* C7 witness: the migration is done, the title has a Movie row without any
\* Recommendation row, and the response came from the pickles.
C7_Witness ==
    /\ Served
    /\ resp.source = "pickle"
    /\ pc = "done"
    /\ InStore(resp.request)
    /\ ~HasRows(resp.request)

\* C8: a title that neither the store nor the catalog of the pickles holds
\* is answered with 404 and without any item.
C8_UnknownTitle ==
    [][(/\ RecommendStep
        /\ resp'.request # NoMovieKey
        /\ resp'.request \notin AllTitles
        /\ ~InStore(resp'.request))
       => (resp'.status = 404 /\ resp'.recommendations = <<>>)]_vars

\* C8 witness: 404 for the unknown title while the pickles are loaded and
\* the store holds the migrated catalog.
C8_Witness ==
    /\ resp.kind = "recommend"
    /\ resp.request = UnknownTitle
    /\ resp.status = 404
    /\ resp.recommendations = <<>>
    /\ data_loaded
    /\ pc = "done"
    /\ recommendations # {}

\* C9: when the analytics write fails, the response is the one a successful
\* write gives: status 200, the same items in the same order, the same
\* provenance; and no history row is stored.
C9_AnalyticsFailure ==
    [][(RecommendStep /\ resp'.write = "failed") =>
        \A recs \in {source_recommendations(resp'.request)} :
        \A ok \in {log_request(recommend_movies(resp'.request, recs), TRUE)} :
           /\ ok.write = "ok"
           /\ resp'.status = 200
           /\ resp'.status = ok.status
           /\ resp'.selected_movie = ok.selected_movie
           /\ resp'.recommendations = ok.recommendations
           /\ resp'.source = ok.source
           /\ history' = history]_vars

\* C9 witness: a full list served from the store although the analytics
\* write failed.
C9_Witness ==
    /\ Served
    /\ resp.write = "failed"
    /\ Len(resp.recommendations) = TopK

\* C10, as the specification states it: in a catalog of one entry, a request
\* for that entry is answered with 200 and an empty list whenever the entry
\* resolves, in the store, in the loaded pickles or in both.
C10_ZeroCandidates ==
    [][(/\ RecommendStep
        /\ N = 1
        /\ resp'.request = movie_data[0]
        /\ (InStore(resp'.request) \/ data_loaded))
       => (resp'.status = 200 /\ resp'.recommendations = <<>>)]_vars

\* C11, as the specification states it: every recommend request answered
\* with a list attempts the analytics write, whichever path produced the
\* list, and a request answered with 404 attempts none.
C11_AnalyticsEmitted ==
    resp.kind = "recommend" =>
        /\ resp.status = 200 => resp.write \in {"ok", "failed"}
        /\ resp.status = 404 => resp.write = "none"

\* What the caller of recommend receives.
Output(r) == <<r.status, r.selected_movie, r.recommendations, r.source>>

\* C12: the output of recommend is determined by the title, the pickles and
\* the committed Movie and Recommendation rows: asked again right after the
\* request, whatever became of its analytics write, recommend returns the
\* same status, items, order, rounded scores and provenance.  The queries
\* of the persisted path have one answer: the title has a single Movie row
\* and the rows of the source have different ranks.
C12_Determinism ==
    [][\A t \in RequestTitles :
        (RecommendStep /\ resp'.request = t) =>
            /\ \A recs \in {source_recommendations(t)'} :
               \A again \in {recommend_movies(t, recs)'} :
                   Output(resp') = Output(again)
            /\ Cardinality(MoviesTitled(t)) <= 1
            /\ \A m \in MoviesTitled(t) :
               \A rows \in {{r \in recommendations :
                               r.source_movie_id = m.id}} :
               \A q, r \in rows : q.rank = r.rank => q = r]_vars

\* C12 witness: a full list served from the store by a request whose
\* analytics row was stored.
C12_Witness ==
    /\ Served
    /\ resp.source = "database"
    /\ resp.write = "ok"
    /\ history # <<>>
    /\ Len(resp.recommendations) = TopK
    /\ pc = "done"

\* A step in which a request handler returned a response or stored a row.
RequestStep == resp' # resp \/ history' # history

\* C13: a request (list_titles or recommend) leaves the pickles, the Movie
\* rows, the Recommendation rows and the similarity pairs as they were; all
\* it may add is one RecommendationHistory row, for the Movie row of the
\* requested title.
C13_ReadOnlyRequests ==
    [][RequestStep =>
        /\ dataset' = dataset
        /\ data_loaded' = data_loaded
        /\ movies' = movies
        /\ recommendations' = recommendations
        /\ similarity_pairs' = similarity_pairs
        /\ \/ history' = history
           \/ /\ resp'.kind = "recommend"
              /\ Len(history') = Len(history) + 1
              /\ SubSeq(history', 1, Len(history)) = history
              /\ \E m \in movies :
                    /\ m.title = resp'.request
                    /\ history'[Len(history')].source_movie_id = m.id]_vars

\* C13 witness: the titles are listed after a request stored its history
\* row, over a store the migration has filled.
C13_Witness ==
    /\ resp.kind = "movies"
    /\ resp.status = 200
    /\ history # <<>>
    /\ recommendations # {}
    /\ similarity_pairs # {}

\* C14, as the specification states it: every Recommendation row and every
\* SimilarityMatrix row the migration commits scores above the
\* materialization threshold.
C14_Threshold ==
    /\ \A r \in recommendations :
        r.similarity_score > MaterializationThreshold
    /\ \A q \in similarity_pairs :
        q.similarity_score > MaterializationThreshold

\* C15: get_movies returns the titles in ascending order, each once: the
\* titles of the Movie rows whenever there is one, the titles of the pickles
\* when there is none and the pickles are loaded, and the error 500 without
\* any title when neither is there.
C15_ListTitles ==
    [][(resp'.kind = "movies" /\ resp' # resp) =>
        LET titles == resp'.titles
            listed == {titles[p] : p \in 1..Len(titles)}
        IN /\ \A p \in 1..(Len(titles) - 1) : titles[p] < titles[p + 1]
           /\ movies # {} =>
                /\ resp'.status = 200
                /\ resp'.source = "database"
                /\ listed = {m.title : m \in movies}
           /\ (movies = {} /\ data_loaded) =>
                /\ resp'.status = 200
                /\ resp'.source = "pickle"
                /\ listed = AllTitles
           /\ (movies = {} /\ ~data_loaded) =>
                /\ resp'.status = 500
                /\ resp'.source = "none"
                /\ titles = <<>>]_vars

\* C15 witness: the titles of a catalog held in descending order, listed
\* from the pickles.
C15_Witness ==
    /\ resp.kind = "movies"
    /\ resp.source = "pickle"
    /\ Len(resp.titles) = TopK + 2
    /\ movie_data[0] > movie_data[1]

\* C16, as the specification states it: the process starts to serve only
\* if the pickles were loaded or the store holds a catalog.
C16_StartupFatal ==
    [][(server = "starting" /\ server' = "serving")
       => (data_loaded' \/ movies' # {})]_vars

C18_NoEntryLost ==
    pc = "migrate_similarity_data" =>
        \A i \in Indices :
            ~Rejected(i) => Cardinality(MoviesTitled(movie_data[i])) = 1

\* The rows migrate_similarity_data writes for the catalog entry i when no
\* row is stored yet.
CompleteRows(i) ==
    NewRecommendations(movie_id_map(movie_data[i]),
                       TopSlice(SortedScores(similarity_matrix[i])), {})

\* C19, as the specification states it: in every committed state a source
\* has either no Recommendation row or all of its rows, with the ranks
\* 1..count.
C19_NoPartialList ==
    \A i \in Indices : \A m \in MoviesTitled(movie_data[i]) :
        LET rows == {r \in recommendations : r.source_movie_id = m.id}
        IN \/ rows = {}
           \/ /\ rows = CompleteRows(i)
              /\ {r.rank : r \in rows} = 1..Cardinality(rows)

\* C20, as the specification states it: no Recommendation or
\* SimilarityMatrix row is written before migrate_movies has returned
\* True, and the source and the recommended movie of every Recommendation
\* row are two different Movie rows.
C20_Integrity ==
    /\ (runs = 1 /\ pc \in {"migrate_movies", "failed"}) =>
            (recommendations = {} /\ similarity_pairs = {})
    /\ \A r \in recommendations :
        /\ \E m \in movies : m.id = r.source_movie_id
        /\ \E m \in movies : m.id = r.recommended_movie_id
        /\ r.source_movie_id # r.recommended_movie_id

\* The SimilarityMatrix rows stored for the ordered pair of Movie ids.
PairRows(movie1_id, movie2_id) ==
    {q \in similarity_pairs :
        q.movie1_id = movie1_id /\ q.movie2_id = movie2_id}

\* C21: once migrate_similarity_matrix has run, the similarity_matrix table
\* holds no self pair; for two catalog entries i < j it holds no row with
\* the entry j first, and exactly one row with the entry i first when both
\* entries have a Movie row and the dense score is above the threshold,
\* that row holding the dense score, and no row otherwise; and every row of
\* the table is the row of such a pair.
C21_SimilarityPairs ==
    pc = "done" =>
        /\ \A q \in similarity_pairs : q.movie1_id # q.movie2_id
        /\ \A i, j \in Indices : i < j =>
            \A id1 \in {movie_id_map(movie_data[i])} :
            \A id2 \in {movie_id_map(movie_data[j])} :
            \A rows \in {PairRows(id1, id2)} :
                /\ PairRows(id2, id1) = {}
                /\ IF /\ id1 # 0
                      /\ id2 # 0
                      /\ similarity_matrix[i][j] > MaterializationThreshold
                   THEN /\ Cardinality(rows) = 1
                        /\ \A q \in rows :
                            q.similarity_score = similarity_matrix[i][j]
                   ELSE rows = {}
        /\ \A q \in similarity_pairs : \E i, j \in Indices :
            /\ i < j
            /\ movie_id_map(movie_data[i]) = q.movie1_id
            /\ movie_id_map(movie_data[j]) = q.movie2_id

\* C21 witness: the migration is done over a catalog in which one entry has
\* no Movie row; some pair is stored and some pair of entries with Movie
\* rows is pruned for a score at or below the threshold.
C21_Witness ==
    /\ pc = "done"
    /\ similarity_pairs # {}
    /\ \E i \in Indices : movie_id_map(movie_data[i]) = 0
    /\ \E i, j \in Indices :
        /\ i < j
        /\ movie_id_map(movie_data[i]) # 0
        /\ movie_id_map(movie_data[j]) # 0
        /\ similarity_matrix[i][j] <= MaterializationThreshold
        /\ PairRows(movie_id_map(movie_data[i]),
                    movie_id_map(movie_data[j])) = {}
====
